---- MODULE Spec2Model ----
(***************************************************************************)
(* Model of the owner_node_id schema fix of storage.rs                     *)
(* (src/STORAGE_MIGRATION_FIX.rs): ensure_schema, run_migrations and the   *)
(* manual sqlite3 fix, run against one SQLite database file.               *)
(*                                                                         *)
(* The database is a function from table name to [exists, cols, rows].     *)
(* Every SQL statement is one atomic step of the process that issues it    *)
(* (SQLite runs each statement in autocommit mode: neither function opens  *)
(* a transaction), so a call is a sequence of steps and another process    *)
(* may act between two of them.                                            *)
(***************************************************************************)
EXTENDS Integers, Sequences, FiniteSets, TLC

VARIABLES db, call, pass, procs

vars == <<db, call, pass, procs>>

----------------------------------------------------------------------------
(* Bounds *)

\* rows seeded into a table that exists when the model starts
MaxRows == 1

----------------------------------------------------------------------------
(* Processes that may open the database file: two are enough for a race *)

Procs == {1, 2}

----------------------------------------------------------------------------
(* Schema *)

\* the three tables, in the order both functions name them
Tables == <<"groups", "workspaces", "objects">>

NumSteps == Len(Tables)

TableSet == {Tables[i] : i \in 1..NumSteps}

OwnerCol == [name |-> "owner_node_id", decl |-> "TEXT"]

Null == "NULL"

\* variant: ensure_schema still creates the tables without owner_node_id
TargetColsOld(t) ==
    CASE t = "groups" ->
           << [name |-> "id",         decl |-> "TEXT PRIMARY KEY"],
              [name |-> "name",       decl |-> "TEXT NOT NULL"],
              [name |-> "icon",       decl |-> "TEXT NOT NULL"],
              [name |-> "color",      decl |-> "TEXT NOT NULL"],
              [name |-> "created_at", decl |-> "INTEGER NOT NULL"] >>
      [] t = "workspaces" ->
           << [name |-> "id",         decl |-> "TEXT PRIMARY KEY"],
              [name |-> "group_id",   decl |-> "TEXT NOT NULL"],
              [name |-> "name",       decl |-> "TEXT NOT NULL"],
              [name |-> "created_at", decl |-> "INTEGER NOT NULL"] >>
      [] t = "objects" ->
           << [name |-> "id",           decl |-> "TEXT PRIMARY KEY"],
              [name |-> "workspace_id", decl |-> "TEXT NOT NULL"],
              [name |-> "name",         decl |-> "TEXT NOT NULL"],
              [name |-> "created_at",   decl |-> "INTEGER NOT NULL"],
              [name |-> "board_type",   decl |-> "TEXT DEFAULT 'canvas'"] >>

\* the column list of each CREATE TABLE of ensure_schema, in declaration order
TargetCols(t) ==
    CASE t = "groups" ->
           << [name |-> "id",         decl |-> "TEXT PRIMARY KEY"],
              [name |-> "name",       decl |-> "TEXT NOT NULL"],
              [name |-> "icon",       decl |-> "TEXT NOT NULL"],
              [name |-> "color",      decl |-> "TEXT NOT NULL"],
              [name |-> "created_at", decl |-> "INTEGER NOT NULL"],
              [name |-> "owner_node_id", decl |-> "TEXT"] >>
      [] t = "workspaces" ->
           << [name |-> "id",         decl |-> "TEXT PRIMARY KEY"],
              [name |-> "group_id",   decl |-> "TEXT NOT NULL"],
              [name |-> "name",       decl |-> "TEXT NOT NULL"],
              [name |-> "created_at", decl |-> "INTEGER NOT NULL"],
              [name |-> "owner_node_id", decl |-> "TEXT"] >>
      [] t = "objects" ->
           << [name |-> "id",           decl |-> "TEXT PRIMARY KEY"],
              [name |-> "workspace_id", decl |-> "TEXT NOT NULL"],
              [name |-> "name",         decl |-> "TEXT NOT NULL"],
              [name |-> "created_at",   decl |-> "INTEGER NOT NULL"],
              [name |-> "board_type",   decl |-> "TEXT DEFAULT 'canvas'"],
              [name |-> "owner_node_id", decl |-> "TEXT"] >>

IsLegacyCol(c) == c.name # OwnerCol.name

\* the table as it was before the fix: the same statement without owner_node_id
LegacyCols(t) == SelectSeq(TargetCols(t), IsLegacyCol)

ColNames(cols) == {cols[i].name : i \in 1..Len(cols)}

HasOwner(tbl) == tbl.exists /\ OwnerCol.name \in ColNames(tbl.cols)

AbsentTable == [exists |-> FALSE, cols |-> <<>>, rows |-> <<>>]

EmptyDb == [t \in TableSet |-> AbsentTable]

----------------------------------------------------------------------------
(* Errors: what rusqlite reports, a kind and the object SQLite names *)

NoErr == [kind |-> "ok", obj |-> ""]

IsErr(e) == e.kind # "ok"

NoSuchTable(t) == [kind |-> "no such table", obj |-> t]

NoSuchColumn == [kind |-> "no such column", obj |-> OwnerCol.name]

DuplicateColumn == [kind |-> "duplicate column name", obj |-> OwnerCol.name]

\* a failure of the statement itself (disk full, I/O error, file locked)
IoErr == [kind |-> "disk I/O error", obj |-> ""]

----------------------------------------------------------------------------
(* SQL statements *)

\* variant: the table is dropped and created again as it was before the fix
ExecCreateRecreate(d, t) ==
    [db |-> [d EXCEPT ![t] = [exists |-> TRUE,
                              cols   |-> SelectSeq(TargetCols(t), IsLegacyCol),
                              rows   |-> <<>>]],
     err |-> NoErr]

\* variant: an existing table without the column is brought to the new shape
ExecCreateUpgrade(d, t) ==
    IF d[t].exists
    THEN IF OwnerCol.name \in ColNames(d[t].cols)
         THEN [db |-> d, err |-> NoErr]
         ELSE [db |-> [d EXCEPT ![t].cols = TargetCols(t),
                                ![t].rows = [i \in 1..Len(d[t].rows) |->
                                    [c \in ColNames(TargetCols(t)) |->
                                        IF c \in DOMAIN d[t].rows[i]
                                        THEN d[t].rows[i][c] ELSE Null]]],
               err |-> NoErr]
    ELSE [db |-> [d EXCEPT ![t] = [exists |-> TRUE,
                                   cols   |-> TargetCols(t),
                                   rows   |-> <<>>]],
          err |-> NoErr]

\* CREATE TABLE IF NOT EXISTS t (...)
ExecCreate(d, t) ==
    IF d[t].exists
    THEN [db |-> d, err |-> NoErr]
    ELSE [db |-> [d EXCEPT ![t] = [exists |-> TRUE,
                                   cols   |-> TargetCols(t),
                                   rows   |-> <<>>]],
          err |-> NoErr]

\* variant: the probe selects a column the table never has
ExecProbeWrongColumn(d, t) ==
    IF ~d[t].exists THEN NoSuchTable(t) ELSE NoSuchColumn

\* conn.prepare("SELECT owner_node_id FROM t LIMIT 1")
ExecProbe(d, t) ==
    IF ~d[t].exists THEN NoSuchTable(t)
    ELSE IF ~HasOwner(d[t]) THEN NoSuchColumn
    ELSE NoErr

\* variant: the new column is filled with the empty string
AddEmpty(row) ==
    [c \in DOMAIN row \cup {OwnerCol.name} |->
        IF c \in DOMAIN row THEN row[c] ELSE ""]

\* a row of a table that gets a new column without a default: NULL
AddNull(row) ==
    [c \in DOMAIN row \cup {OwnerCol.name} |->
        IF c \in DOMAIN row THEN row[c] ELSE Null]

\* variant: the table is rebuilt with the new column only
ExecAlterRebuild(d, t) ==
    IF ~d[t].exists THEN [db |-> d, err |-> NoSuchTable(t)]
    ELSE IF HasOwner(d[t]) THEN [db |-> d, err |-> DuplicateColumn]
    ELSE [db |-> [d EXCEPT ![t] =
                    [exists |-> TRUE,
                     cols   |-> <<OwnerCol>>,
                     rows   |-> [i \in 1..Len(d[t].rows) |->
                                    [c \in {OwnerCol.name} |-> Null]]]],
          err |-> NoErr]

\* variant: the column can be added to a table only once the table before it
\* in the order has it
ExecAlterDependent(d, t) ==
    IF ~d[t].exists THEN [db |-> d, err |-> NoSuchTable(t)]
    ELSE IF HasOwner(d[t]) THEN [db |-> d, err |-> DuplicateColumn]
    ELSE IF \E k \in 2..NumSteps : Tables[k] = t /\ ~HasOwner(d[Tables[k - 1]])
         THEN [db |-> d, err |-> NoSuchColumn]
    ELSE [db |-> [d EXCEPT ![t] =
                    [exists |-> TRUE,
                     cols   |-> Append(d[t].cols, OwnerCol),
                     rows   |-> [i \in 1..Len(d[t].rows) |-> AddNull(d[t].rows[i])]]],
          err |-> NoErr]

\* ALTER TABLE t ADD COLUMN owner_node_id TEXT
ExecAlter(d, t) ==
    IF ~d[t].exists THEN [db |-> d, err |-> NoSuchTable(t)]
    ELSE IF HasOwner(d[t]) THEN [db |-> d, err |-> DuplicateColumn]
    ELSE [db |-> [d EXCEPT ![t] =
                    [exists |-> TRUE,
                     cols   |-> Append(d[t].cols, OwnerCol),
                     rows   |-> [i \in 1..Len(d[t].rows) |-> AddNull(d[t].rows[i])]]],
          err |-> NoErr]

\* a statement that fails for a reason of its own changes nothing
Faulted(d) == [db |-> d, err |-> IoErr]

\* the sqlite3 command line of the manual fix, one table
ManualFix(d, t) == ExecAlter(d, t).db

\* the whole batch of ensure_schema when no statement fails
RECURSIVE ExecuteBatch(_, _)
ExecuteBatch(d, i) ==
    IF i > NumSteps THEN d
    ELSE ExecuteBatch(ExecCreate(d, Tables[i]).db, i + 1)

----------------------------------------------------------------------------
(* Databases the program can be started on *)

RowIds == <<"r1", "r2", "r3", "r4">>

SeedVal(c, i) ==
    CASE c = "id"           -> RowIds[i]
      [] c = "name"         -> "Work"
      [] c = "icon"         -> "i"
      [] c = "color"        -> "#fff"
      [] c = "created_at"   -> "100"
      [] c = "group_id"     -> "g1"
      [] c = "workspace_id" -> "w1"
      [] c = "board_type"   -> "canvas"

\* a row written by the application before the fix
SeedRow(t, i) == [c \in ColNames(LegacyCols(t)) |-> SeedVal(c, i)]

LegacyTable(t, n) ==
    [exists |-> TRUE, cols |-> LegacyCols(t), rows |-> [i \in 1..n |-> SeedRow(t, i)]]

Shapes == {"absent", "legacy", "fixed"}

\* the database before the program starts: every table is absent, legacy, or
\* legacy with the manual fix already applied
StartDb(shape, n) ==
    LET base == [t \in TableSet |->
                    IF shape[t] = "absent" THEN AbsentTable ELSE LegacyTable(t, n[t])]
    IN  [t \in TableSet |->
            IF shape[t] = "fixed" THEN ManualFix(base, t)[t] ELSE base[t]]

StartDbs ==
    {StartDb(shape, n) : shape \in [TableSet -> Shapes], n \in [TableSet -> 0..MaxRows]}

----------------------------------------------------------------------------
(* One call of a process: where it is, and what it has done so far *)

NoCall ==
    [op |-> "none", phase |-> "idle", step |-> 0, db0 |-> EmptyDb, trace |-> <<>>,
     faulted |-> FALSE, ret |-> "none", err |-> NoErr, failedStep |-> 0]

NewCall(op, phase, d) ==
    [op |-> op, phase |-> phase, step |-> 1, db0 |-> d, trace |-> <<>>,
     faulted |-> FALSE, ret |-> "none", err |-> NoErr, failedStep |-> 0]

Idle(c) == c.phase = "idle"

\* Ok(())
ReturnOk(c) == [c EXCEPT !.phase = "idle", !.ret = "Ok", !.step = 0]

\* the ? operator: the statement's error is returned as it is
ReturnErr(c, e) ==
    [c EXCEPT !.phase = "idle", !.ret = "Err", !.err = e, !.failedStep = c.step, !.step = 0]

\* a statement of the call has been executed
Logged(c, stmt, e, f) ==
    [c EXCEPT !.trace = Append(@, [stmt |-> stmt, step |-> c.step, err |-> e]),
              !.faulted = @ \/ f]

\* variant: the batch ends after its first statement
BatchNextFirstOnly(c, e) ==
    IF IsErr(e) THEN ReturnErr(c, e) ELSE ReturnOk(c)

\* execute_batch: the next statement of the batch, or Ok(()) after the last
BatchNext(c, e) ==
    IF IsErr(e) THEN ReturnErr(c, e)
    ELSE IF c.step < NumSteps THEN [c EXCEPT !.step = @ + 1]
    ELSE ReturnOk(c)

\* the next migration block, or Ok(()) after the last
NextMigration(c) ==
    IF c.step < NumSteps THEN [c EXCEPT !.phase = "probe", !.step = @ + 1]
    ELSE ReturnOk(c)

\* variant: the ALTER TABLE runs whatever the probe said
AfterProbeAlways(c, e) == [c EXCEPT !.phase = "alter"]

\* variant: the test of the probe is inverted
AfterProbeInverted(c, e) ==
    IF IsErr(e) THEN NextMigration(c) ELSE [c EXCEPT !.phase = "alter"]

\* variant: a block whose probe failed is left without its ALTER TABLE
AfterProbeSkip(c, e) == NextMigration(c)

\* if conn.prepare(...).is_err() { ... }
AfterProbe(c, e) ==
    IF IsErr(e) THEN [c EXCEPT !.phase = "alter"] ELSE NextMigration(c)

\* variant: the result of the ALTER TABLE is dropped
AfterAlterIgnored(c, e) == NextMigration(c)

\* conn.execute("ALTER TABLE ...", [])?;
AfterAlter(c, e) ==
    IF IsErr(e) THEN ReturnErr(c, e) ELSE NextMigration(c)

\* the migration blocks of run_migrations taken in the given order, from the
\* i-th on, when no statement fails for a reason of its own: the database
\* they leave and the error they return
RECURSIVE MigrateIn(_, _, _)
MigrateIn(d, order, i) ==
    IF i > Len(order) THEN [db |-> d, err |-> NoErr]
    ELSE LET t == order[i] IN
         IF IsErr(ExecProbe(d, t))
         THEN LET r == ExecAlter(d, t) IN
              IF IsErr(r.err) THEN r ELSE MigrateIn(r.db, order, i + 1)
         ELSE MigrateIn(d, order, i + 1)

ColSets(d) == [t \in TableSet |-> IF d[t].exists THEN ColNames(d[t].cols) ELSE {}]

NoPass == [n |-> 0, cols |-> ColSets(EmptyDb)]

\* Progress of a process through "ensure_schema, run_migrations, both Ok,
\* then ensure_schema, run_migrations again with no failing statement":
\* n counts the calls of that sequence completed so far, cols is the schema
\* the first pass left.
PassAfter(ps, c, d) ==
    IF c.op = "ensure_schema"
    THEN IF ps.n \in {2, 4} /\ ~c.faulted THEN [n |-> 3, cols |-> ps.cols]
         ELSE IF c.ret = "Ok" THEN [n |-> 1, cols |-> NoPass.cols]
         ELSE NoPass
    ELSE IF ps.n = 3 /\ ~c.faulted THEN [n |-> 4, cols |-> ps.cols]
         ELSE IF ps.n = 1 /\ c.ret = "Ok" THEN [n |-> 2, cols |-> ColSets(d)]
         ELSE NoPass

----------------------------------------------------------------------------
(* Actions *)

\* the state common to every step of process p: its call moves to c, the
\* database to d
Step(p, c, d) ==
    /\ call' = [call EXCEPT ![p] = c]
    /\ db' = d
    /\ pass' = IF Idle(c) THEN [pass EXCEPT ![p] = PassAfter(pass[p], c, d)] ELSE pass
    /\ UNCHANGED procs

CallEnsureSchema(p) ==
    /\ p \in procs
    /\ Idle(call[p])
    /\ Step(p, NewCall("ensure_schema", "create", db), db)

\* one CREATE TABLE IF NOT EXISTS of the batch
Create(p) ==
    /\ p \in procs
    /\ call[p].phase = "create"
    /\ \E f \in BOOLEAN :
         LET t == Tables[call[p].step]
             r == IF f THEN Faulted(db) ELSE ExecCreate(db, t)
         IN  Step(p, BatchNext(Logged(call[p], "create", r.err, f), r.err), r.db)

CallRunMigrations(p) ==
    /\ p \in procs
    /\ Idle(call[p])
    /\ Step(p, NewCall("run_migrations", "probe", db), db)

\* the probe of one migration block
Probe(p) ==
    /\ p \in procs
    /\ call[p].phase = "probe"
    /\ \E f \in BOOLEAN :
         LET t == Tables[call[p].step]
             e == IF f THEN IoErr ELSE ExecProbe(db, t)
         IN  Step(p, AfterProbe(Logged(call[p], "probe", e, f), e), db)

\* the ALTER TABLE of one migration block
Alter(p) ==
    /\ p \in procs
    /\ call[p].phase = "alter"
    /\ \E f \in BOOLEAN :
         LET t == Tables[call[p].step]
             r == IF f THEN Faulted(db) ELSE ExecAlter(db, t)
         IN  Step(p, AfterAlter(Logged(call[p], "alter", r.err, f), r.err), r.db)

Next ==
    \E p \in Procs :
        \/ CallEnsureSchema(p)
        \/ Create(p)
        \/ CallRunMigrations(p)
        \/ Probe(p)
        \/ Alter(p)

InitWith(ps) ==
    /\ db \in StartDbs
    /\ call = [p \in Procs |-> NoCall]
    /\ pass = [p \in Procs |-> NoPass]
    /\ procs = ps

\* one process owns the database file
Init == InitWith({1})

Spec == Init /\ [][Next]_vars

\* every process opens the same database file
InitConc == InitWith(Procs)

SpecConc == InitConc /\ [][Next]_vars

----------------------------------------------------------------------------
(* Properties *)

Alters(c) == {i \in 1..Len(c.trace) : c.trace[i].stmt = "alter"}

AltersOf(c, k) == {i \in Alters(c) : c.trace[i].step = k}

Finished(p, op) == p \in procs /\ Idle(call[p]) /\ call[p].op = op

\* every table exists without owner_node_id
IsLegacyDb(d) == \A t \in TableSet : d[t].exists /\ d[t].cols = LegacyCols(t)

AllExist(d) == \A t \in TableSet : d[t].exists

AllHaveOwner(d) == \A t \in TableSet : HasOwner(d[t])

\* C1: once ensure_schema and then run_migrations have both returned Ok, a
\* second ensure_schema and run_migrations in which no statement fails for a
\* reason of its own both return Ok, execute no ALTER TABLE, and leave the
\* column set of every table as the first pass left it.
C1_SecondPassIsNoOp ==
    \A p \in procs :
        (Idle(call[p]) /\ pass[p].n \in {3, 4}) =>
            /\ call[p].ret = "Ok"
            /\ Alters(call[p]) = {}
            /\ ColSets(db) = pass[p].cols

\* a second pass has completed on a database that first had a legacy table
C1_Witness ==
    \E p \in procs :
        /\ Idle(call[p])
        /\ pass[p].n = 4
        /\ call[p].op = "run_migrations"
        /\ AllHaveOwner(db)
        /\ \E t \in TableSet : db[t].rows # <<>>

\* C2: in a run_migrations call, an ALTER TABLE that failed is the last
\* statement the call executes (no probe and no ALTER TABLE of a later step
\* follows it), and the call has returned Err.
C2_FailFast ==
    \A p \in procs :
        \A i \in Alters(call[p]) :
            IsErr(call[p].trace[i].err) =>
                /\ i = Len(call[p].trace)
                /\ Idle(call[p])
                /\ call[p].ret = "Err"

\* the ALTER TABLE of groups failed, workspaces and objects still lack the column
C2_Witness ==
    \E p \in procs :
        /\ Finished(p, "run_migrations")
        /\ call[p].ret = "Err"
        /\ call[p].failedStep = 1
        /\ AltersOf(call[p], 1) # {}
        /\ db["workspaces"].exists /\ ~HasOwner(db["workspaces"])
        /\ db["objects"].exists /\ ~HasOwner(db["objects"])

\* the step an error value names, 0 when it names none
StepNamedBy(e) ==
    IF e.kind = "no such table" /\ \E k \in 1..NumSteps : Tables[k] = e.obj
    THEN CHOOSE k \in 1..NumSteps : Tables[k] = e.obj
    ELSE 0

\* C3: the error run_migrations returns identifies the step that failed.
C3_ErrorIdentifiesStep ==
    \A p \in procs :
        (Finished(p, "run_migrations") /\ call[p].ret = "Err") =>
            StepNamedBy(call[p].err) = call[p].failedStep

\* C4: the column set of every table after ensure_schema alone on an empty
\* database equals its column set in a legacy database after a successful
\* run_migrations.
C4_FreshEquivalence ==
    \A p \in procs :
        /\ (Finished(p, "ensure_schema") /\ call[p].ret = "Ok" /\ call[p].db0 = EmptyDb) =>
              db = ExecuteBatch(EmptyDb, 1)
        /\ (Finished(p, "run_migrations") /\ call[p].ret = "Ok" /\ IsLegacyDb(call[p].db0)) =>
              ColSets(db) = ColSets(ExecuteBatch(EmptyDb, 1))

\* run_migrations returned Ok on a legacy database after three ALTER TABLEs
C4_Witness ==
    \E p \in procs :
        /\ Finished(p, "run_migrations")
        /\ call[p].ret = "Ok"
        /\ IsLegacyDb(call[p].db0)
        /\ Cardinality(Alters(call[p])) = NumSteps

\* C5: a probe that failed for another reason than the missing column is not
\* followed by the ALTER TABLE of its step.
C5_ProbeAmbiguity ==
    \A p \in procs :
        \A i \in 1..Len(call[p].trace) :
            LET s == call[p].trace[i] IN
            (s.stmt = "probe" /\ IsErr(s.err) /\ s.err # NoSuchColumn) =>
                /\ ~(i = Len(call[p].trace) /\ call[p].phase = "alter")
                /\ AltersOf(call[p], s.step) = {}

\* C6: no step removes a table or a column of a table, or changes a column.
C6_Additive ==
    [][\A t \in TableSet :
          db[t].exists =>
             /\ db'[t].exists
             /\ Len(db[t].cols) <= Len(db'[t].cols)
             /\ \A i \in 1..Len(db[t].cols) : db'[t].cols[i] = db[t].cols[i]]_vars

\* an ALTER TABLE has added the column to a legacy table
C6_Witness ==
    \E p \in procs :
        \E i \in Alters(call[p]) :
            LET t == Tables[call[p].trace[i].step] IN
            /\ ~IsErr(call[p].trace[i].err)
            /\ call[p].db0[t].cols = LegacyCols(t)
            /\ db[t].cols = Append(LegacyCols(t), OwnerCol)

\* C7: after run_migrations every table that existed has the rows it had,
\* each with the values it had in the columns it had, and a column the call
\* added is NULL in every one of them.
C7_RowsPreserved ==
    \A p \in procs :
        Finished(p, "run_migrations") =>
            \A t \in TableSet :
                LET old == call[p].db0[t]
                    new == db[t]
                IN  old.exists =>
                      /\ Len(new.rows) = Len(old.rows)
                      /\ \A i \in 1..Len(old.rows) :
                            /\ DOMAIN new.rows[i] = ColNames(new.cols)
                            /\ \A c \in DOMAIN old.rows[i] : new.rows[i][c] = old.rows[i][c]
                            /\ (~HasOwner(old) /\ HasOwner(new)) =>
                                   new.rows[i][OwnerCol.name] = Null

\* run_migrations has added the column to a table that had a row
C7_Witness ==
    \E p \in procs :
        /\ Finished(p, "run_migrations")
        /\ \E t \in TableSet :
              /\ call[p].db0[t].exists
              /\ ~HasOwner(call[p].db0[t])
              /\ HasOwner(db[t])
              /\ call[p].db0[t].rows # <<>>
              /\ db[t].rows[1]["id"] = RowIds[1]

\* C8: on a database whose tables all exist, some with the column already
\* added, a run_migrations in which no statement fails for a reason of its own
\* returns Ok, executes no ALTER TABLE for the tables that had the column and
\* exactly one, successful, for each of the others.
C8_ToleratesManualFix ==
    \A p \in procs :
        (Finished(p, "run_migrations") /\ ~call[p].faulted /\ AllExist(call[p].db0)) =>
            /\ call[p].ret = "Ok"
            /\ \A k \in 1..NumSteps :
                  /\ Cardinality(AltersOf(call[p], k)) =
                        IF HasOwner(call[p].db0[Tables[k]]) THEN 0 ELSE 1
                  /\ \A i \in AltersOf(call[p], k) : ~IsErr(call[p].trace[i].err)

\* groups had the column from the manual fix, workspaces and objects did not
C8_Witness ==
    \E p \in procs :
        /\ Finished(p, "run_migrations")
        /\ ~call[p].faulted
        /\ call[p].ret = "Ok"
        /\ HasOwner(call[p].db0["groups"])
        /\ call[p].db0["workspaces"].cols = LegacyCols("workspaces")
        /\ call[p].db0["objects"].cols = LegacyCols("objects")
        /\ Cardinality(Alters(call[p])) = 2

\* C9: at most one process is between a probe and its ALTER TABLE, and no
\* ALTER TABLE finds the column added since the probe of its step missed it.
C9_MutualExclusion ==
    /\ Cardinality({p \in procs : call[p].phase = "alter"}) <= 1
    /\ \A p \in procs :
          \A i \in Alters(call[p]) :
              (i > 1 /\ call[p].trace[i - 1].err = NoSuchColumn) =>
                  call[p].trace[i].err # DuplicateColumn

\* C10: when run_migrations returns Err the column sets are those of before
\* the call, and when it returns Ok every table has owner_node_id.
C10_AtomicFailure ==
    \A p \in procs :
        Finished(p, "run_migrations") =>
            /\ call[p].ret = "Err" => ColSets(db) = ColSets(call[p].db0)
            /\ call[p].ret = "Ok" => AllHaveOwner(db)

\* process p returns from its call in this step, no statement of the call
\* having failed for a reason of its own
ReturnsClean(p) == ~Idle(call[p]) /\ Idle(call'[p]) /\ ~call'[p].faulted

\* C11: whatever the database was, an ensure_schema in which no statement
\* fails for a reason of its own returns Ok with all three tables existing,
\* and the run_migrations that follows it, under the same condition, returns
\* Ok with owner_node_id in all three tables.
C11_Converges ==
    [][\A p \in procs :
          ReturnsClean(p) =>
             /\ call[p].op = "ensure_schema" =>
                   call'[p].ret = "Ok" /\ AllExist(db')
             /\ (call[p].op = "run_migrations" /\ pass[p].n \in {1, 3}) =>
                   call'[p].ret = "Ok" /\ AllHaveOwner(db')]_vars

\* ensure_schema then run_migrations have returned Ok, the latter after
\* adding the column to two tables and finding it in the third
C11_Witness ==
    \E p \in procs :
        /\ Finished(p, "run_migrations")
        /\ pass[p].n = 2
        /\ ~call[p].faulted
        /\ Cardinality(Alters(call[p])) = 2
        /\ AllHaveOwner(db)

\* the names of the columns of a table, in order
NameList(tbl) == [i \in 1..Len(tbl.cols) |-> tbl.cols[i].name]

\* the database with the three tables in their target shape and no row
IsTargetDb(d) ==
    /\ AllExist(d)
    /\ NameList(d["groups"]) =
          <<"id", "name", "icon", "color", "created_at", "owner_node_id">>
    /\ NameList(d["workspaces"]) =
          <<"id", "group_id", "name", "created_at", "owner_node_id">>
    /\ NameList(d["objects"]) =
          <<"id", "workspace_id", "name", "created_at", "board_type", "owner_node_id">>

\* C12: ensure_schema returning Ok on an empty database has created groups,
\* workspaces and objects with exactly the target column lists, in order, and
\* a run_migrations on that database in which no statement fails for a reason
\* of its own returns Ok without executing an ALTER TABLE.
C12_FreshSchema ==
    \A p \in procs :
        /\ (Finished(p, "ensure_schema") /\ call[p].ret = "Ok" /\ call[p].db0 = EmptyDb) =>
              IsTargetDb(db)
        /\ (Finished(p, "run_migrations") /\ ~call[p].faulted
              /\ call[p].db0 = ExecuteBatch(EmptyDb, 1)) =>
              call[p].ret = "Ok" /\ Alters(call[p]) = {} /\ db = call[p].db0

\* run_migrations has run on the database ensure_schema made from nothing
C12_Witness ==
    \E p \in procs :
        /\ Finished(p, "run_migrations")
        /\ pass[p].n = 2
        /\ ~call[p].faulted
        /\ IsTargetDb(call[p].db0)
        /\ \A t \in TableSet : call[p].db0[t].rows = <<>>
        /\ Len(call[p].trace) = NumSteps

\* C13: a table that has owner_node_id has it after every step of every
\* ensure_schema or run_migrations call, whether the call succeeds or fails.
C13_PresentStaysPresent ==
    [][\A t \in TableSet : HasOwner(db[t]) => HasOwner(db'[t])]_vars

\* an ensure_schema has run to its end on a database where one table, with a
\* row, had the column and another table did not: the first still has it
C13_Witness ==
    \E p \in procs :
        /\ Finished(p, "ensure_schema")
        /\ \E t \in TableSet :
              /\ HasOwner(call[p].db0[t])
              /\ HasOwner(db[t])
              /\ db[t].rows # <<>>
        /\ \E t \in TableSet : ~HasOwner(db[t])

\* the statements of a run_migrations call come in declaration order: the
\* call starts with the probe of step 1, an ALTER TABLE follows the failed
\* probe of its own step, and the probe of step k+1 follows either the
\* successful probe of step k or the successful ALTER TABLE of step k
TraceOrdered(c) ==
    \A i \in 1..Len(c.trace) :
        LET s == c.trace[i] IN
        IF i = 1 THEN s.stmt = "probe" /\ s.step = 1
        ELSE LET q == c.trace[i - 1] IN
             \/ /\ s.stmt = "alter"
                /\ q.stmt = "probe" /\ q.step = s.step /\ IsErr(q.err)
             \/ /\ s.stmt = "probe"
                /\ s.step = q.step + 1
                /\ ~IsErr(q.err)

\* C14: run_migrations processes groups, then workspaces, then objects: the
\* probe of a step comes only after the step before it has skipped or has
\* completed its ALTER TABLE, and an ALTER TABLE adds owner_node_id to a table
\* only when every table before it in the order has the column.
C14_DeclarationOrder ==
    /\ [](\A p \in procs : call[p].op = "run_migrations" => TraceOrdered(call[p]))
    /\ [][\A k \in 1..NumSteps :
             (/\ db[Tables[k]].exists
              /\ ~HasOwner(db[Tables[k]])
              /\ HasOwner(db'[Tables[k]])) =>
                 \A j \in 1..(k - 1) : HasOwner(db[Tables[j]])]_vars

\* the probe of objects has followed the ALTER TABLE of workspaces, which
\* followed the ALTER TABLE of groups
C14_Witness ==
    \E p \in procs :
        /\ call[p].op = "run_migrations"
        /\ Len(call[p].trace) >= 5
        /\ call[p].trace[2].stmt = "alter" /\ call[p].trace[2].step = 1
        /\ call[p].trace[4].stmt = "alter" /\ call[p].trace[4].step = 2
        /\ call[p].trace[5].stmt = "probe" /\ call[p].trace[5].step = 3
        /\ ~HasOwner(call[p].db0["groups"])
        /\ HasOwner(db["workspaces"])

\* the orders in which the three migration blocks can be taken
Orders ==
    {o \in [1..NumSteps -> TableSet] : \A i, j \in 1..NumSteps : o[i] = o[j] => i = j}

\* C15: on a database whose tables all exist, the migration blocks taken in
\* any order, with no statement failing for a reason of its own, return no
\* error and leave the column sets that run_migrations, which takes them in
\* the declared order, leaves.
C15_OrderIndependent ==
    \A p \in procs :
        (Finished(p, "run_migrations") /\ ~call[p].faulted /\ AllExist(call[p].db0)) =>
            /\ call[p].ret = "Ok"
            /\ db = MigrateIn(call[p].db0, Tables, 1).db
            /\ \A o \in Orders :
                  LET r == MigrateIn(call[p].db0, o, 1) IN
                  ~IsErr(r.err) /\ ColSets(r.db) = ColSets(db)

\* run_migrations has added the column to all three tables of a legacy database
C15_Witness ==
    \E p \in procs :
        /\ Finished(p, "run_migrations")
        /\ ~call[p].faulted
        /\ IsLegacyDb(call[p].db0)
        /\ AllHaveOwner(db)
        /\ \E o \in Orders : o # Tables /\ MigrateIn(call[p].db0, o, 1).db = db

\* C16: during and after an ensure_schema call every table that existed when
\* the call started is as it was, columns and rows; and a step that gives
\* owner_node_id to an existing table is the ALTER TABLE of a run_migrations.
C16_EnsureSchemaFrame ==
    /\ [](\A p \in procs :
            call[p].op = "ensure_schema" =>
               \A t \in TableSet : call[p].db0[t].exists => db[t] = call[p].db0[t])
    /\ [][\A t \in TableSet :
             (db[t].exists /\ ~HasOwner(db[t]) /\ HasOwner(db'[t])) =>
                \E p \in procs :
                   /\ call[p].op = "run_migrations"
                   /\ call[p].phase = "alter"
                   /\ Tables[call[p].step] = t]_vars

\* ensure_schema has created a table next to a legacy table with a row, which
\* is still without owner_node_id
C16_Witness ==
    \E p \in procs :
        /\ Finished(p, "ensure_schema")
        /\ call[p].ret = "Ok"
        /\ \E t \in TableSet : ~call[p].db0[t].exists /\ HasOwner(db[t])
        /\ \E t \in TableSet :
              /\ call[p].db0[t].exists
              /\ call[p].db0[t].rows # <<>>
              /\ ~HasOwner(db[t])

====
